---- MODULE Spec2Model ----
(***************************************************************************)
(* StochasticAI LLM wrapper (langchain/llms/stochasticai.py).              *)
(*                                                                         *)
(* State: the process environment, the mapping object the caller passes as *)
(* model_kwargs, the constructed client, the log of warnings, and for each *)
(* call of _call its frame (the locals of the function), its outcome and    *)
(* the outbound events (HTTP requests and sleeps) it has performed.        *)
(*                                                                         *)
(* Python strings that are inspected character by character (completion    *)
(* texts, stop words) are sequences of one-character strings; opaque       *)
(* strings (URLs, keys, prompts, field names) are TLA+ strings.            *)
(***************************************************************************)
EXTENDS Integers, Sequences, FiniteSets, TLC

VARIABLES
    environ,       \* os.environ["STOCHASTICAI_API_KEY"], or Unset
    callerKwargs,  \* the dict object the caller owns and may pass as model_kwargs
    client,        \* outcome of the latest StochasticAI(...) expression
    warnings,      \* field names passed to logger.warning by the latest construction
    frame,         \* per call: the locals of _call and its outcome
    trace,         \* per call: outbound events (POST, GET, sleep) in order
    responses      \* per call: the HTTP responses received, in order (POST's first)

vars == <<environ, callerKwargs, client, warnings, frame, trace, responses>>

(***************************************************************************)
(* Bounds of the model.                                                    *)
(***************************************************************************)
MaxGets == 3        \* GET requests one call may issue

Calls == {1, 2}

(***************************************************************************)
(* Python values.                                                          *)
(***************************************************************************)
Unset == "<unset>"                 \* None / missing, for opaque strings
EmptyDict == [n \in {} |-> 0]      \* {}

\* JSON / Python values that _call subscripts: uniform records, val always a
\* sequence of texts (a str value holds its one text in a one-element val).
PyNone == [tag |-> "None", val |-> <<>>]
PyList(l) == [tag |-> "list", val |-> l]
PyStr(s) == [tag |-> "str", val |-> <<s>>]
PyNum == [tag |-> "num", val |-> <<>>]
StrOf(v) == v.val[1]

RECURSIVE SeqsUpTo(_, _)
SeqsUpTo(S, n) ==
    IF n = 0 THEN {<<>>}
    ELSE LET shorter == SeqsUpTo(S, n - 1)
         IN  shorter \cup {Append(s, x) : s \in {t \in shorter : Len(t) = n - 1}, x \in S}

DictSet(d, k, v) == [n \in DOMAIN d \cup {k} |-> IF n = k THEN v ELSE d[n]]

(***************************************************************************)
(* Inputs.                                                                 *)
(***************************************************************************)
ModelUrl == "https://api/submit/flan-t5"
ExplicitKeys == {Unset, "key-explicit"}     \* stochasticai_api_key=... or not given
EnvKeys == {Unset, "key-env"}               \* the environment variable, or unset
ExtraNames == {"foo", "temperature"}        \* constructor fields the class does not declare
FieldValue(field_name) == IF field_name = "foo" THEN 2 ELSE 3
InitialKwargs ==                            \* dicts the caller may own at the start
    {EmptyDict, [foo |-> 1], [model_id |-> 1]}
NoRepeat(l) == \A i, j \in 1..Len(l) : i # j => l[i] # l[j]
FieldOrders == {o \in SeqsUpTo(ExtraNames, 2) : NoRepeat(o)}

Prompts == {"p1"}
Urls == {"u1"}
\* stop: None, no stop word, one, or both ("ab" does not occur in "ba")
StopArgs ==
    {PyNone, PyList(<<>>), PyList(<< <<"b">> >>), PyList(<< <<"a", "b">> >>),
     PyList(<< <<"b">>, <<"a", "b">> >>)}
\* completion values: lists of no, one or two candidates, and values that
\* are not lists
Completions ==
    {PyList(<<>>), PyList(<< <<"a", "b">> >>), PyList(<< <<"b", "a">> >>),
     PyList(<< <<"b", "a">>, <<"a", "b">> >>), PyStr(<<"a", "b">>), PyNum}
\* POST responses: status and the "data" object of the body
PostResponses ==
    {[status_code |-> 500, data |-> EmptyDict], [status_code |-> 200, data |-> EmptyDict]}
    \cup {[status_code |-> 200, data |-> [responseUrl |-> u]] : u \in Urls}
\* GET responses: completion absent, null, or present
GetResponses ==
    {[status_code |-> 500, data |-> EmptyDict], [status_code |-> 200, data |-> EmptyDict],
     [status_code |-> 200, data |-> [completion |-> PyNone]]}
    \cup {[status_code |-> 200, data |-> [completion |-> v]] : v \in Completions}

(***************************************************************************)
(* Construction: build_extra (pre root validator), validate_environment.   *)
(***************************************************************************)
all_required_field_names == {"model_id", "model_kwargs", "stochasticai_api_key"}

\* mutant: the duplicate is not detected, the field overwrites the entry
SuppliedTwice_unchecked(field_name, extra) == FALSE

\* line 74
SuppliedTwice(field_name, extra) == field_name \in DOMAIN extra

\* the loop of build_extra over list(values): order is the names in values,
\* extra the dict under construction, warned the names logged so far
RECURSIVE build_extra_loop(_, _, _, _)
build_extra_loop(order, i, extra, warned) ==
    IF i > Len(order)
    THEN [raised |-> FALSE, extra |-> extra, warned |-> warned]
    ELSE LET field_name == order[i]
         IN  IF field_name \notin all_required_field_names
             THEN IF SuppliedTwice(field_name, extra)
                  THEN [raised |-> TRUE, extra |-> extra, warned |-> warned]
                  ELSE build_extra_loop(order, i + 1,
                                        DictSet(extra, field_name, FieldValue(field_name)),
                                        Append(warned, field_name))
             ELSE build_extra_loop(order, i + 1, extra, warned)

\* extra is values.get("model_kwargs", {}): the caller's own dict when passed
build_extra(order, passKwargs) ==
    build_extra_loop(order, 1, IF passKwargs THEN callerKwargs ELSE EmptyDict, <<>>)

\* langchain.utils.get_from_dict_or_env: the explicit value, else the
\* environment variable, else an error
get_from_dict_or_env(value, env) ==
    IF value # Unset THEN [raised |-> FALSE, value |-> value]
    ELSE IF env # Unset THEN [raised |-> FALSE, value |-> env]
    ELSE [raised |-> TRUE, value |-> Unset]

validate_environment(key) == get_from_dict_or_env(key, environ)

NoClient(error) ==
    [status |-> IF error = "" THEN "none" ELSE "error", error |-> error,
     model_id |-> "", stochasticai_api_key |-> Unset, model_kwargs |-> EmptyDict]

KwargsOrder(key, passKwargs, fields) ==
    <<"model_id">> \o (IF key # Unset THEN <<"stochasticai_api_key">> ELSE <<>>)
                   \o (IF passKwargs THEN <<"model_kwargs">> ELSE <<>>) \o fields

(***************************************************************************)
(* Frames of _call.                                                        *)
(***************************************************************************)
IdleFrame ==
    [pc |-> "idle", prompt |-> "", stop |-> PyNone, response_post_json |-> EmptyDict,
     text |-> PyNone, completed |-> FALSE,
     ret |-> PyNone, exc |-> ""]

Running(c) == frame[c].pc \in {"loop", "sleep", "after_loop"}
Terminated(c) == frame[c].pc \in {"returned", "raised"}

Init ==
    /\ environ \in EnvKeys
    /\ callerKwargs \in InitialKwargs
    /\ client = NoClient("")
    /\ warnings = <<>>
    /\ frame = [c \in Calls |-> IdleFrame]
    /\ trace = [c \in Calls |-> <<>>]
    /\ responses = [c \in Calls |-> <<>>]

\* StochasticAI(model_id=ModelUrl, [stochasticai_api_key=key,]
\*              [model_kwargs=callerKwargs,] **fields)
Construct(key, passKwargs, fields) ==
    LET be == build_extra(KwargsOrder(key, passKwargs, fields), passKwargs)
        ve == validate_environment(key)
    IN  /\ \A c \in Calls : frame[c].pc = "idle"
        /\ callerKwargs' = IF passKwargs THEN be.extra ELSE callerKwargs
        /\ warnings' = be.warned
        /\ client' = IF be.raised THEN NoClient("supplied twice")
                     ELSE IF ve.raised THEN NoClient("no api key")
                     ELSE [status |-> "ok", error |-> "", model_id |-> ModelUrl,
                           stochasticai_api_key |-> ve.value, model_kwargs |-> be.extra]
        /\ UNCHANGED <<environ, frame, trace, responses>>

(***************************************************************************)
(* _call: one POST, then the polling loop, then the stop words.            *)
(***************************************************************************)
SleepMs == 500    \* time.sleep(0.5)

NoJson == [prompt |-> "", params |-> EmptyDict]
NoHeaders == [apiKey |-> "", Accept |-> "", ContentType |-> ""]

\* mutant: the key is always read from the environment
Headers_env ==
    [apiKey |-> environ, Accept |-> "application/json", ContentType |-> "application/json"]

\* the headers literal of requests.post and of requests.get
Headers ==
    [apiKey |-> client.stochasticai_api_key, Accept |-> "application/json",
     ContentType |-> "application/json"]

\* mutant: the parameter map is left out of the body
Params_none == EmptyDict

\* params = self.model_kwargs or {}
Params == IF client.model_kwargs = EmptyDict THEN EmptyDict ELSE client.model_kwargs

PostEvent(prompt) ==
    [kind |-> "POST", url |-> client.model_id, headers |-> Headers,
     json |-> [prompt |-> prompt, params |-> Params], ms |-> 0]
\* response_post_json["data"]["responseUrl"] (Unset where the lookup raises)
PollUrl(json) == IF "responseUrl" \in DOMAIN json THEN json.responseUrl ELSE Unset
\* mutant: the poll goes to the submission endpoint
GetEvent_submit(c) ==
    [kind |-> "GET", url |-> client.model_id, headers |-> Headers, json |-> NoJson, ms |-> 0]

\* mutant: the response URL is kept in one place shared by all calls
GetEvent_shared(c) ==
    [kind |-> "GET", url |-> PollUrl(frame[1].response_post_json), headers |-> Headers,
     json |-> NoJson, ms |-> 0]

\* mutant: the stop words are sent along with the poll
GetEvent_stop(c) ==
    [kind |-> "GET", url |-> PollUrl(frame[c].response_post_json), headers |-> Headers,
     json |-> [prompt |-> IF frame[c].stop = PyNone THEN "" ELSE "stop", params |-> EmptyDict],
     ms |-> 0]

\* lines 130-137
GetEvent(c) ==
    [kind |-> "GET", url |-> PollUrl(frame[c].response_post_json), headers |-> Headers,
     json |-> NoJson, ms |-> 0]
SleepEvent ==
    [kind |-> "sleep", url |-> "", headers |-> NoHeaders, json |-> NoJson, ms |-> SleepMs]

Count(c, kind) == Cardinality({i \in 1..Len(trace[c]) : trace[c][i].kind = kind})
nPosts(c) == Count(c, "POST")
nGets(c) == Count(c, "GET")
nSleeps(c) == Count(c, "sleep")

\* mutant: raise_for_status() is not called
RaisesForStatus_never(response) == FALSE

\* Response.raise_for_status()
RaisesForStatus(response) == response.status_code >= 400

\* response_get_json.get("completion")
GetCompletion(data) == IF "completion" \in DOMAIN data THEN data.completion ELSE PyNone

\* mutant: the loop is left after the first successful GET
IsCompleted_always(text) == TRUE

\* completed = text is not None
IsCompleted(text) == text # PyNone

Raise(c, exception) == [frame[c] EXCEPT !.pc = "raised", !.exc = exception]

\* lines 116-128: the POST, raise_for_status, json(), completed = False
Start(c, prompt, stop, response) ==
    /\ client.status = "ok"
    /\ frame[c].pc = "idle"
    /\ trace' = [trace EXCEPT ![c] = Append(@, PostEvent(prompt))]
    /\ responses' = [responses EXCEPT ![c] = Append(@, response)]
    /\ frame' = [frame EXCEPT ![c] =
                    IF RaisesForStatus(response)
                    THEN [@ EXCEPT !.pc = "raised", !.exc = "HTTPError",
                                   !.prompt = prompt, !.stop = stop]
                    ELSE [@ EXCEPT !.pc = "loop", !.prompt = prompt, !.stop = stop,
                                   !.response_post_json = response.data,
                                   !.completed = FALSE]]
    /\ UNCHANGED <<environ, callerKwargs, client, warnings>>

\* mutant: the lookup is a .get() that never raises
LookupError_none(json) == ""

\* response_post_json["data"]["responseUrl"]: the exception it raises, or ""
LookupError(json) == IF "responseUrl" \notin DOMAIN json THEN "KeyError" ELSE ""

\* lines 129-141: one pass of the loop body up to the sleep
Get(c, response) ==
    /\ frame[c].pc = "loop"
    /\ nGets(c) < MaxGets
    /\ IF LookupError(frame[c].response_post_json) # ""
       THEN /\ frame' = [frame EXCEPT ![c] = Raise(c, LookupError(frame[c].response_post_json))]
            /\ UNCHANGED <<trace, responses>>
       ELSE /\ trace' = [trace EXCEPT ![c] = Append(@, GetEvent(c))]
            /\ responses' = [responses EXCEPT ![c] = Append(@, response)]
            /\ frame' = [frame EXCEPT ![c] =
                            IF RaisesForStatus(response)
                            THEN Raise(c, "HTTPError")
                            ELSE [@ EXCEPT !.pc = "sleep",
                                           !.text = GetCompletion(response.data),
                                           !.completed =
                                               IsCompleted(GetCompletion(response.data))]]
    /\ UNCHANGED <<environ, callerKwargs, client, warnings>>

\* line 142, then the loop test of line 129
Sleep(c) ==
    /\ frame[c].pc = "sleep"
    /\ trace' = [trace EXCEPT ![c] = Append(@, SleepEvent)]
    /\ frame' = [frame EXCEPT ![c].pc = IF frame[c].completed THEN "after_loop" ELSE "loop"]
    /\ UNCHANGED <<environ, callerKwargs, client, warnings, responses>>

\* text[0]: the exception it raises, or "" when it succeeds
SubscriptError(text) ==
    CASE text.tag = "list" -> IF Len(text.val) = 0 THEN "IndexError" ELSE ""
      [] text.tag = "str" -> IF Len(StrOf(text)) = 0 THEN "IndexError" ELSE ""
      [] OTHER -> "TypeError"

\* mutant: text[-1]
FirstOf_last(text) ==
    IF text.tag = "list" THEN PyStr(text.val[Len(text.val)])
    ELSE PyStr(<<StrOf(text)[Len(StrOf(text))]>>)

\* text[0] where it succeeds: the first element of a list, the first
\* character of a str
FirstOf(text) ==
    IF text.tag = "list" THEN PyStr(text.val[1]) ELSE PyStr(<<StrOf(text)[1]>>)

\* word occurs in text at position i (1-based)
OccursAt(word, text, i) ==
    /\ i + Len(word) - 1 <= Len(text)
    /\ SubSeq(text, i, i + Len(word) - 1) = word

\* langchain.llms.utils.enforce_stop_tokens: the text up to, not including,
\* the earliest occurrence of any stop word
enforce_stop_tokens(text, stop) ==
    LET hits == {i \in 1..Len(text) + 1 :
                    \E k \in 1..Len(stop) : OccursAt(stop[k], text, i)}
    IN  IF hits = {} THEN text
        ELSE SubSeq(text, 1, (CHOOSE i \in hits : \A j \in hits : i <= j) - 1)

\* mutant: the stop words are not enforced
ApplyStop_skipped(text, stop) == text

\* lines 144-147
ApplyStop(text, stop) ==
    IF stop # PyNone THEN PyStr(enforce_stop_tokens(StrOf(text), stop.val)) ELSE text

\* lines 143-148
Finish(c) ==
    /\ frame[c].pc = "after_loop"
    /\ frame' = [frame EXCEPT ![c] =
                    IF SubscriptError(frame[c].text) # ""
                    THEN Raise(c, SubscriptError(frame[c].text))
                    ELSE [@ EXCEPT !.pc = "returned",
                                   !.text = ApplyStop(FirstOf(frame[c].text), frame[c].stop),
                                   !.ret = ApplyStop(FirstOf(frame[c].text), frame[c].stop)]]
    /\ UNCHANGED <<environ, callerKwargs, client, warnings, trace, responses>>

\* the caller has taken the outcome; the frame is gone
Discard(c) ==
    /\ Terminated(c)
    /\ frame' = [frame EXCEPT ![c] = IdleFrame]
    /\ trace' = [trace EXCEPT ![c] = <<>>]
    /\ responses' = [responses EXCEPT ![c] = <<>>]
    /\ UNCHANGED <<environ, callerKwargs, client, warnings>>

\* a single-threaded caller: one call at a time (frames are interchangeable,
\* it uses the first)
Sequential(c) == c = 1 /\ \A d \in Calls \ {c} : frame[d].pc = "idle"

Next ==
    \/ \E key \in ExplicitKeys, passKwargs \in BOOLEAN, fields \in FieldOrders :
           Construct(key, passKwargs, fields)
    \/ \E c \in Calls, prompt \in Prompts, stop \in StopArgs, response \in PostResponses :
           Sequential(c) /\ Start(c, prompt, stop, response)
    \/ \E c \in Calls, response \in GetResponses : Get(c, response)
    \/ \E c \in Calls : Sleep(c)
    \/ \E c \in Calls : Finish(c)
    \/ \E c \in Calls : Discard(c)

Spec == Init /\ [][Next]_vars

\* the calling thread is blocked but keeps running: a sleep ends, and the
\* statements after the loop are executed
LiveSpec == Spec /\ \A c \in Calls : WF_vars(Sleep(c)) /\ WF_vars(Finish(c))

(***************************************************************************)
(* Concurrent callers: several threads call generate on one client, each   *)
(* with a frame of its own; their steps interleave freely.                 *)
(***************************************************************************)
ConcPrompts == {"p1", "p2"}
ConcStops == {PyNone, PyList(<< <<"b">> >>)}
ConcPosts ==
    {[status_code |-> 200, data |-> [responseUrl |-> u]] : u \in {"u1", "u2"}}
ConcGets ==
    {[status_code |-> 500, data |-> EmptyDict],
     [status_code |-> 200, data |-> EmptyDict],
     [status_code |-> 200, data |-> [completion |-> PyList(<< <<"a", "b">> >>)]]}
ConcFields == {<<>>, <<"temperature">>}

InitConc ==
    /\ environ = "key-env"
    /\ callerKwargs = EmptyDict
    /\ client = NoClient("")
    /\ warnings = <<>>
    /\ frame = [c \in Calls |-> IdleFrame]
    /\ trace = [c \in Calls |-> <<>>]
    /\ responses = [c \in Calls |-> <<>>]

NextConc ==
    \/ \E key \in ExplicitKeys, fields \in ConcFields : Construct(key, FALSE, fields)
    \/ \E c \in Calls, prompt \in ConcPrompts, stop \in ConcStops, response \in ConcPosts :
           Start(c, prompt, stop, response)
    \/ \E c \in Calls, response \in ConcGets : Get(c, response)
    \/ \E c \in Calls : Sleep(c)
    \/ \E c \in Calls : Finish(c)
    \/ \E c \in Calls : Discard(c)

ConcSpec == InitConc /\ [][NextConc]_vars

(***************************************************************************)
(* Vocabulary of the properties.                                           *)
(***************************************************************************)
PostResponse(c) == responses[c][1]
GetResponsesOf(c) == Tail(responses[c])
LastResponse(c) == responses[c][Len(responses[c])]
Succeeded(r) == r.status_code < 400
\* a successful GET response whose completion is absent or null
InProgress(r) == Succeeded(r) /\ GetCompletion(r.data) = PyNone
\* a successful GET response whose completion is a non-empty list
HasCandidates(r) ==
    /\ Succeeded(r)
    /\ GetCompletion(r.data).tag = "list"
    /\ Len(GetCompletion(r.data).val) >= 1
FirstCandidate(r) == GetCompletion(r.data).val[1]
\* the GET responses so far: k-1 in progress, then one with candidates
CompletedAtKth(c, k) ==
    /\ Len(responses[c]) = k + 1
    /\ Succeeded(PostResponse(c))
    /\ \A i \in 1..(k - 1) : InProgress(GetResponsesOf(c)[i])
    /\ HasCandidates(GetResponsesOf(c)[k])
TransportError(c) == frame[c].pc = "raised" /\ frame[c].exc = "HTTPError"
ProtocolError(c) ==
    frame[c].pc = "raised" /\ frame[c].exc \in {"KeyError", "IndexError", "TypeError"}
ReturnedString(c) == frame[c].pc = "returned"

\* C1: with no stop list, when the first k-1 GET responses are successful
\* with completion absent or null and the k-th carries a non-empty completion
\* list, the call has issued exactly k GETs, does not fail, and what it
\* returns is the first element of that list; and a call that has returned
\* has received a GET response with a non-null completion.
C1_ReturnsFirstOfKthResponse ==
    \A c \in Calls :
        /\ \A k \in 1..MaxGets :
               (CompletedAtKth(c, k) /\ frame[c].stop = PyNone) =>
                   /\ nGets(c) = k
                   /\ frame[c].pc \in {"sleep", "after_loop", "returned"}
                   /\ frame[c].pc = "returned" =>
                          frame[c].ret = PyStr(FirstCandidate(GetResponsesOf(c)[k]))
                   /\ frame[c].pc # "returned" => frame[c].ret = PyNone
        /\ ReturnedString(c) =>
               /\ Len(responses[c]) >= 2
               /\ Succeeded(LastResponse(c))
               /\ GetCompletion(LastResponse(c).data) # PyNone

C1_Witness ==
    /\ CompletedAtKth(1, 3)
    /\ frame[1].stop = PyNone
    /\ ReturnedString(1)
    /\ Len(GetCompletion(LastResponse(1).data).val) = 2
    /\ frame[1].ret = PyStr(<<"b", "a">>)

\* C2: when the POST is answered with a non-success status, the call has
\* failed with a transport error, has issued no GET and exactly one POST,
\* and has returned nothing.
C2_PostFailureIsFatal ==
    \A c \in Calls :
        (Len(responses[c]) >= 1 /\ ~Succeeded(PostResponse(c))) =>
            /\ TransportError(c)
            /\ nGets(c) = 0
            /\ nPosts(c) = 1
            /\ Len(responses[c]) = 1
            /\ frame[c].ret = PyNone

C2_Witness ==
    /\ Len(responses[1]) = 1
    /\ PostResponse(1).status_code = 500
    /\ TransportError(1)
    /\ Len(trace[1]) = 1

\* C3: when a GET (the first or a later one) is answered with a non-success
\* status, the call has failed with a transport error at that GET: it is the
\* last request of the call, it was issued once, and nothing is returned.
C3_GetFailureIsFatal ==
    \A c \in Calls :
        \A i \in 2..Len(responses[c]) :
            ~Succeeded(responses[c][i]) =>
                /\ i = Len(responses[c])
                /\ TransportError(c)
                /\ nGets(c) = i - 1
                /\ trace[c][Len(trace[c])].kind = "GET"
                /\ frame[c].ret = PyNone

C3_Witness ==
    /\ Len(responses[1]) = 3
    /\ ~Succeeded(responses[1][3])
    /\ TransportError(1)
    /\ nGets(1) = 2

\* C4: when the successful POST response has no data.responseUrl, the call
\* issues no GET: it is about to look the field up, or has failed with a
\* protocol error.
C4_MissingResponseUrl ==
    \A c \in Calls :
        (/\ Len(responses[c]) >= 1
         /\ Succeeded(PostResponse(c))
         /\ "responseUrl" \notin DOMAIN PostResponse(c).data) =>
            /\ nGets(c) = 0
            /\ Len(responses[c]) = 1
            /\ frame[c].pc = "loop" \/ ProtocolError(c)
            /\ frame[c].ret = PyNone

C4_Witness ==
    /\ Len(responses[1]) = 1
    /\ Succeeded(PostResponse(1))
    /\ "responseUrl" \notin DOMAIN PostResponse(1).data
    /\ ProtocolError(1)
    /\ frame[1].exc = "KeyError"

\* out is text cut immediately before the earliest occurrence of any of the
\* stop words (text itself when none occurs)
CutAtEarliestStop(out, text, stop) ==
    \/ /\ out = text
       /\ \A i \in 1..Len(text) + 1, k \in 1..Len(stop) : ~OccursAt(stop[k], text, i)
    \/ \E i \in 1..Len(text) + 1 :
           /\ out = SubSeq(text, 1, i - 1)
           /\ \E k \in 1..Len(stop) : OccursAt(stop[k], text, i)
           /\ \A j \in 1..(i - 1), k \in 1..Len(stop) : ~OccursAt(stop[k], text, j)

\* C5: a call that returns on a completion list returns its first candidate
\* unchanged when stop is None, and otherwise the prefix of the first
\* candidate that ends immediately before the earliest occurrence of any
\* stop word.
C5_StopTruncation ==
    \A c \in Calls :
        (ReturnedString(c) /\ HasCandidates(LastResponse(c))) =>
            /\ frame[c].ret.tag = "str"
            /\ IF frame[c].stop = PyNone
               THEN StrOf(frame[c].ret) = FirstCandidate(LastResponse(c))
               ELSE CutAtEarliestStop(StrOf(frame[c].ret), FirstCandidate(LastResponse(c)),
                                      frame[c].stop.val)

\* "ab" with stop ["b", "ab"]: the earliest stop word is "ab", listed second
C5_Witness ==
    /\ ReturnedString(1)
    /\ HasCandidates(LastResponse(1))
    /\ FirstCandidate(LastResponse(1)) = <<"a", "b">>
    /\ frame[1].stop = PyList(<< <<"b">>, <<"a", "b">> >>)
    /\ frame[1].ret = PyStr(<<>>)

\* C6 as claimed: the waits are exactly the gaps between consecutive GETs: a
\* wait follows a GET and, unless the call is suspended in it, precedes the
\* next GET, and a call that has returned after k GETs has waited k-1 times
\* and ends with its last GET.
C6_WaitsOnlyBetweenGets ==
    \A c \in Calls :
        /\ \A i \in 1..Len(trace[c]) :
               trace[c][i].kind = "sleep" =>
                   /\ trace[c][i].ms = SleepMs
                   /\ i > 1 /\ trace[c][i - 1].kind = "GET"
                   /\ i < Len(trace[c]) => trace[c][i + 1].kind = "GET"
        /\ ReturnedString(c) =>
               /\ nSleeps(c) = nGets(c) - 1
               /\ trace[c][Len(trace[c])].kind = "GET"

AllSucceeded(c) == \A i \in 1..Len(responses[c]) : Succeeded(responses[c][i])
\* the POST gave a poll URL and every GET so far was answered "in progress"
StillInProgress(c) ==
    /\ Len(responses[c]) >= 1
    /\ Succeeded(PostResponse(c))
    /\ "responseUrl" \in DOMAIN PostResponse(c).data
    /\ \A i \in 2..Len(responses[c]) : InProgress(responses[c][i])
\* the latest GET response carries a non-null completion
GotCompletion(c) ==
    /\ Len(responses[c]) >= 2
    /\ Succeeded(LastResponse(c))
    /\ GetCompletion(LastResponse(c).data) # PyNone

GotCandidates(c) == GotCompletion(c) /\ HasCandidates(LastResponse(c))
GotEmptyList(c) ==
    /\ GotCompletion(c)
    /\ GetCompletion(LastResponse(c).data) = PyList(<<>>)

C8_SuppliedTwiceRejected ==
    [][\A key \in ExplicitKeys, fields \in FieldOrders :
           (/\ \E i \in 1..Len(fields) : fields[i] \in DOMAIN callerKwargs
            /\ Construct(key, TRUE, fields)) =>
               (client'.status = "error" /\ client'.error = "supplied twice")]_vars

\* temperature=3 was moved first, then foo=2 met model_kwargs["foo"]
C8_Witness ==
    /\ client.status = "error"
    /\ client.error = "supplied twice"
    /\ "foo" \in DOMAIN callerKwargs
    /\ warnings = <<"temperature">>

\* C9 as claimed: no key of a constructed client's model_kwargs is the name
\* of a declared field.
C9_NoDeclaredFieldInKwargs ==
    client.status = "ok" => DOMAIN client.model_kwargs \cap all_required_field_names = {}

\* every request sent so far carries the client's key, and there is no
\* request without a constructed client
KeySentInEveryRequest ==
    \A c \in Calls :
        \A i \in 1..Len(trace[c]) :
            trace[c][i].kind \in {"POST", "GET"} =>
                /\ client.status = "ok"
                /\ trace[c][i].headers.apiKey = client.stochasticai_api_key

\* C10: a construction resolves the key as the explicit value, else the
\* environment variable, else a configuration error; the resolved key is the
\* apiKey header of every request, and no request is issued without a
\* constructed client.
C10_ApiKeyResolution ==
    [][/\ \A key \in ExplicitKeys, passKwargs \in BOOLEAN, fields \in FieldOrders :
              Construct(key, passKwargs, fields) =>
                  /\ client'.status = "ok" =>
                         client'.stochasticai_api_key = (IF key # Unset THEN key ELSE environ)
                  /\ client'.status = "ok" => client'.stochasticai_api_key # Unset
                  /\ (key = Unset /\ environ = Unset) =>
                         (client'.status = "error" /\ \A c \in Calls : trace'[c] = <<>>)
       /\ KeySentInEveryRequest']_vars

\* the explicit key is sent although the environment variable is set
C10_Witness ==
    /\ environ = "key-env"
    /\ client.status = "ok"
    /\ client.stochasticai_api_key = "key-explicit"
    /\ nGets(1) = 2
    /\ \A i \in 1..Len(trace[1]) :
           trace[1][i].kind \in {"POST", "GET"} => trace[1][i].headers.apiKey = "key-explicit"

\* the environment variable supplies the key, or construction fails
C10_WitnessEnv ==
    /\ environ = "key-env"
    /\ client.stochasticai_api_key = "key-env"
    /\ nPosts(1) = 1

\* C11: a successful construction leaves in the parameter map exactly the
\* entries of the supplied model_kwargs and every unrecognized field with its
\* value, and logs one warning per moved field; the params of the body of
\* every POST is that parameter map.
C11_FieldsMovedIntoParams ==
    [][/\ \A key \in ExplicitKeys, passKwargs \in BOOLEAN, fields \in FieldOrders :
              (Construct(key, passKwargs, fields) /\ client'.status = "ok") =>
                  LET supplied == IF passKwargs THEN callerKwargs ELSE EmptyDict
                      moved == {fields[i] : i \in 1..Len(fields)}
                  IN  /\ DOMAIN client'.model_kwargs = DOMAIN supplied \cup moved
                      /\ \A n \in DOMAIN supplied : client'.model_kwargs[n] = supplied[n]
                      /\ \A n \in moved : client'.model_kwargs[n] = FieldValue(n)
                      /\ Len(warnings') = Len(fields)
                      /\ \A n \in moved :
                             Cardinality({j \in 1..Len(warnings') : warnings'[j] = n}) = 1
       /\ \A c \in Calls :
              \A i \in 1..Len(trace'[c]) :
                  trace'[c][i].kind = "POST" =>
                      /\ trace'[c][i].json.params = client'.model_kwargs
                      /\ trace'[c][i].json.prompt = frame'[c].prompt]_vars

\* model_kwargs={"model_id": 1}, temperature=3, foo=2, and a POST made with them
C11_Witness ==
    /\ client.status = "ok"
    /\ client.model_kwargs = [model_id |-> 1, temperature |-> 3, foo |-> 2]
    /\ warnings = <<"temperature", "foo">>
    /\ nPosts(1) = 1
    /\ trace[1][1].json.params = [model_id |-> 1, temperature |-> 3, foo |-> 2]

\* the events of a call so far: one POST, first; every GET goes to the
\* responseUrl of the POST's response with the headers of the POST
OnePostThenGets(c) ==
    Len(trace[c]) >= 1 =>
        /\ trace[c][1].kind = "POST"
        /\ nPosts(c) = 1
        /\ trace[c][1].headers =
               [apiKey |-> client.stochasticai_api_key, Accept |-> "application/json",
                ContentType |-> "application/json"]
        /\ \A i \in 2..Len(trace[c]) :
               trace[c][i].kind = "GET" =>
                   /\ "responseUrl" \in DOMAIN PostResponse(c).data
                   /\ trace[c][i].url = PostResponse(c).data.responseUrl
                   /\ trace[c][i].headers = trace[c][1].headers

\* C13: in every call exactly one POST is issued and it precedes every GET;
\* every GET is sent to the responseUrl of the POST's response with the
\* apiKey, Accept and Content-Type headers of the POST; a call that has
\* returned or failed issues nothing more.
C13_OnePostThenGetsToResponseUrl ==
    [][\A c \in Calls :
           /\ OnePostThenGets(c)'
           /\ Terminated(c) => (trace'[c] = trace[c] \/ (trace'[c] = <<>> /\ frame'[c].pc = "idle"))
      ]_vars

C13_Witness ==
    /\ Terminated(1)
    /\ nPosts(1) = 1
    /\ nGets(1) = 3
    /\ trace[1][1].kind = "POST"
    /\ \A i \in 2..Len(trace[1]) : trace[1][i].kind = "GET" => trace[1][i].url = "u1"

\* the latest GET response carries a completion that is present but is not a
\* non-empty list of strings
GotMalformed(c) ==
    /\ GotCompletion(c)
    /\ ~HasCandidates(LastResponse(c))

\* C14 as claimed: after a successful GET response whose completion is
\* present but malformed, the call does not poll again and does not return:
\* once it has left the loop it has failed with a protocol error.
C14_MalformedCompletionFails ==
    \A c \in Calls :
        GotMalformed(c) =>
            /\ frame[c].pc \in {"sleep", "after_loop", "raised"}
            /\ frame[c].pc = "raised" => ProtocolError(c)
            /\ frame[c].ret = PyNone

C15_WitnessEmpty ==
    /\ ReturnedString(1)
    /\ HasCandidates(LastResponse(1))
    /\ frame[1].stop = PyList(<<>>)

\* C16 as claimed: a construction, successful or not, leaves the caller's
\* model_kwargs mapping as it was.
C16_CallerKwargsUntouched ==
    [][\A key \in ExplicitKeys, passKwargs \in BOOLEAN, fields \in FieldOrders :
           Construct(key, passKwargs, fields) => callerKwargs' = callerKwargs]_vars

Active(c) == Running(c) \/ Terminated(c)

\* C12: under any interleaving of concurrent calls on one client, no step
\* taken while a call is in flight changes the client's configuration, a
\* step of one call leaves every other call's frame, requests and responses
\* as they were, every GET of a call goes to the responseUrl its own POST
\* returned, and two finished calls with the same prompt, stop list and
\* responses have the same outcome.
C12_NoSharedMutableState ==
    [][/\ (\E c \in Calls : Active(c) \/ Active(c)') => client' = client
       /\ \A c, d \in Calls :
              (c # d /\ frame'[c] # frame[c]) =>
                  /\ frame'[d] = frame[d]
                  /\ trace'[d] = trace[d]
                  /\ responses'[d] = responses[d]
       /\ \A c \in Calls : \A i \in 1..Len(trace'[c]) :
              trace'[c][i].kind = "GET" =>
                  trace'[c][i].url = responses'[c][1].data.responseUrl
       /\ \A c, d \in Calls :
              (/\ Terminated(c)' /\ Terminated(d)'
               /\ frame'[c].prompt = frame'[d].prompt
               /\ frame'[c].stop = frame'[d].stop
               /\ responses'[c] = responses'[d]) =>
                  /\ frame'[c].pc = frame'[d].pc
                  /\ frame'[c].ret = frame'[d].ret
                  /\ frame'[c].exc = frame'[d].exc]_vars

\* two calls in flight at once, polling different URLs
C12_Witness ==
    /\ client.status = "ok"
    /\ frame[1].pc = "sleep"
    /\ frame[2].pc = "returned"
    /\ nGets(1) = 2
    /\ nGets(2) = 3
    /\ frame[1].prompt # frame[2].prompt
    /\ PostResponse(1).data.responseUrl = "u2"
    /\ PostResponse(2).data.responseUrl = "u1"
    /\ \A i \in 1..Len(trace[2]) : trace[2][i].kind = "GET" => trace[2][i].url = "u1"

Prefix(a, b) == Len(a) <= Len(b) /\ SubSeq(b, 1, Len(a)) = a

\* C17: two calls on the same client with the same prompt and the same
\* responses have issued the same requests and waits whatever their stop
\* lists are (one sequence is a prefix of the other while a call is still
\* under way, and they are equal once both have finished); and until the
\* loop has been left the text is the completion as received.
C17_StopHasNoInfluenceOnTraffic ==
    /\ \A c, d \in Calls :
           (/\ Active(c) /\ Active(d)
            /\ frame[c].prompt = frame[d].prompt
            /\ responses[c] = responses[d]) =>
               /\ Prefix(trace[c], trace[d]) \/ Prefix(trace[d], trace[c])
               /\ (Terminated(c) /\ Terminated(d)) =>
                      /\ trace[c] = trace[d]
                      /\ frame[c].pc = frame[d].pc
    /\ \A c \in Calls :
           (Running(c) /\ Len(responses[c]) >= 2) =>
               /\ frame[c].text = GetCompletion(LastResponse(c).data)
               /\ frame[c].ret = PyNone

\* same prompt and responses, different stop lists, different results, the
\* same traffic
C17_Witness ==
    /\ ReturnedString(1) /\ ReturnedString(2)
    /\ frame[1].prompt = frame[2].prompt
    /\ responses[1] = responses[2]
    /\ Len(responses[1]) = 3
    /\ frame[1].stop = PyNone
    /\ frame[2].stop = PyList(<< <<"b">> >>)
    /\ frame[1].ret = PyStr(<<"a", "b">>)
    /\ frame[2].ret = PyStr(<<"a">>)
    /\ trace[1] = trace[2]
    /\ nSleeps(1) = 2
====
